---- MODULE Spec2Model ----
(***************************************************************************)
(* A model of the rlispi evaluator (src/src/eval.rs, src/src/value.rs).    *)
(*                                                                         *)
(* eval is a recursive function of a Context and a Value that also writes  *)
(* to the Context's shared global table.  It is modelled as the recursive  *)
(* operator eval over an explicit machine record (the global table, the    *)
(* strong count of the Rc that holds it, the uuid source, and a log of     *)
(* what was evaluated, in order), and the driver evaluates one top-level   *)
(* form per step with a long-lived Context.                                *)
(***************************************************************************)
EXTENDS Integers, Sequences, FiniteSets, TLC

(***************************************************************************)
(* Bounds of the model.                                                    *)
(***************************************************************************)
\* Integer stands for i64; the model keeps IntBits bits of it.
IntBits == 12
\* Largest n the summing closures are applied to.
MaxN == 3
\* Number of fn forms evaluated in one session (each draws a fresh uuid).
MaxUuid == 4

IntMod == 2 ^ IntBits
IntMax == (IntMod \div 2) - 1
IntMin == 0 - (IntMod \div 2)

(***************************************************************************)
(* value.rs: enum Value.                                                   *)
(***************************************************************************)
Nil == [tag |-> "Nil"]
Bool(b) == [tag |-> "Bool", b |-> b]
Integer(i) == [tag |-> "Integer", i |-> i]
String(s) == [tag |-> "String", s |-> s]
Symbol(s) == [tag |-> "Symbol", s |-> s]
List(l) == [tag |-> "List", l |-> l]
\* A Function is a name and a callable.  The callable is either one of the
\* native functions (kind is its Rust name) or the closure built by
\* lambda_fn, which owns bindings, body and local_copy.
Function(name, fun) == [tag |-> "Function", name |-> name, fun |-> fun]

EmptyMap == <<>>
Insert(m, k, v) == (k :> v) @@ m

NativeFun(kind) ==
    [kind |-> kind, bindings |-> <<>>, body |-> Nil, local_copy |-> EmptyMap]
ClosureFun(bindings, body, local_copy) ==
    [kind |-> "closure", bindings |-> bindings, body |-> body,
     local_copy |-> local_copy]

\* Function names: the native's name, or the text of a fresh uuid.
NativeName(s) == [s |-> s, uuid |-> 0]
UuidName(n) == [s |-> "uuid", uuid |-> n]

IsRecur(v) ==
    /\ v.tag = "List"
    /\ Len(v.l) > 0
    /\ v.l[1].tag = "Symbol"
    /\ v.l[1].s = "recur"

\* A variant: no two functions are equal.
FunctionNeverEq(f, g) == FALSE
\* impl PartialEq for Function: names only.
FunctionEq(f, g) == f.name = g.name

\* #[derive(PartialEq)] for Value.
RECURSIVE ValueEq(_, _)
ValueEq(a, b) ==
    IF a.tag # b.tag THEN FALSE
    ELSE CASE a.tag = "Nil" -> TRUE
           [] a.tag = "Bool" -> a.b = b.b
           [] a.tag = "Integer" -> a.i = b.i
           [] a.tag = "String" -> a.s = b.s
           [] a.tag = "Symbol" -> a.s = b.s
           [] a.tag = "Function" -> FunctionEq(a, b)
           [] a.tag = "List" ->
                /\ Len(a.l) = Len(b.l)
                /\ \A k \in 1..Len(a.l) : ValueEq(a.l[k], b.l[k])

(***************************************************************************)
(* Results.  A call ends with Ok(value), with Err(message), or the process *)
(* panics; st is the machine as the call leaves it.                        *)
(***************************************************************************)
NoErr == [msg |-> "", expected |-> 0, got |-> 0]
Msg(m) == [msg |-> m, expected |-> 0, got |-> 0]
MsgCounts(m, e, g) == [msg |-> m, expected |-> e, got |-> g]

Ok(v, st) == [kind |-> "ok", val |-> v, err |-> NoErr, st |-> st]
Err(e, st) == [kind |-> "err", val |-> Nil, err |-> e, st |-> st]
Panic(m, st) == [kind |-> "panic", val |-> Nil, err |-> Msg(m), st |-> st]

\* The log of one evaluation, in order: an entry when eval is entered
\* ("eval") and when it returns ("ret", with the outcome), when a native
\* function is entered ("native"), when a closure is applied ("apply"), at
\* the start of each trampoline iteration ("iter") and for each recur list
\* the trampoline takes ("recur").  depth is the nesting depth of the call,
\* local the local mapping of the Context it runs in, rc the strong count of
\* the Rc at that moment, app the serial number of the closure application.
Event(ev, form, depth, local, st) ==
    [ev |-> ev, form |-> form, depth |-> depth, local |-> local, rc |-> st.rc,
     app |-> 0, params |-> <<>>, kind |-> "", val |-> Nil]
EvalEvent(form, depth, local, st) == Event("eval", form, depth, local, st)
RetEvent(form, depth, local, r) ==
    [Event("ret", form, depth, local, r.st) EXCEPT !.kind = r.kind, !.val = r.val]
NativeEvent(kind, args, depth, local, st) ==
    [Event("native", List(args), depth, local, st) EXCEPT !.kind = kind]
ApplyEvent(fun, args, depth, local, app, st) ==
    [Event("apply", List(args), depth, local, st) EXCEPT
        !.app = app, !.params = fun.bindings]
IterEvent(fun, depth, local, app, st) ==
    [Event("iter", fun.body, depth, local, st) EXCEPT
        !.app = app, !.params = fun.bindings]
RecurEvent(fun, elements, depth, local, app, st) ==
    [Event("recur", List(elements), depth, local, st) EXCEPT
        !.app = app, !.params = fun.bindings]
Logged(st, e) == [st EXCEPT !.log = Append(@, e)]

(***************************************************************************)
(* parser.rs.  A source text is a sequence of characters, each a string of *)
(* length one.                                                             *)
(***************************************************************************)
\* char::is_whitespace, is_alphabetic and the decimal digits, on the
\* characters the model writes its texts in.
IsWhitespace(c) == c \in {" ", "\n"}
IsAlphabetic(c) == c \in {"a", "d", "e", "f", "i", "l", "m", "o", "p", "r",
                          "t", "x", "y", "z"}
IsDigit(c) == c \in {"0", "1", "2", "3"}
IsAlphanumeric(c) == IsAlphabetic(c) \/ IsDigit(c)
DigitValue(c) == CASE c = "0" -> 0 [] c = "1" -> 1 [] c = "2" -> 2 [] c = "3" -> 3

\* fn is_symbol.
is_symbol(token) ==
    \/ token \in {<<"+">>, <<"-">>, <<"*">>, <<"/">>, <<"=">>, <<">">>, <<"<">>}
    \/ /\ Len(token) > 0
       /\ IsAlphabetic(token[1])
       /\ \A k \in 2..Len(token) :
             IsAlphanumeric(token[k]) \/ token[k] \in {"?", "/", "_"}

\* str::parse::<i64>: an optional sign and one digit or more; the value must
\* fit the integer type.  acc is the value of the digits read so far, taken
\* with the sign, so that the smallest integer is read without overflow.
RECURSIVE parse_digits(_, _, _)
parse_digits(digits, sign, acc) ==
    IF digits = <<>> THEN [ok |-> TRUE, i |-> acc]
    ELSE IF ~IsDigit(Head(digits)) THEN [ok |-> FALSE, i |-> 0]
    ELSE IF \/ acc * 10 + sign * DigitValue(Head(digits)) > IntMax
            \/ acc * 10 + sign * DigitValue(Head(digits)) < IntMin
    THEN [ok |-> FALSE, i |-> 0]
    ELSE parse_digits(Tail(digits), sign,
                      acc * 10 + sign * DigitValue(Head(digits)))
parse_i64(token) ==
    IF token = <<>> THEN [ok |-> FALSE, i |-> 0]
    ELSE IF Head(token) \in {"+", "-"}
    THEN IF Len(token) = 1 THEN [ok |-> FALSE, i |-> 0]
         ELSE parse_digits(Tail(token), IF Head(token) = "-" THEN -1 ELSE 1, 0)
    ELSE parse_digits(token, 1, 0)

\* str::trim_start.
RECURSIVE trim_start(_)
trim_start(src) ==
    IF src # <<>> /\ IsWhitespace(Head(src)) THEN trim_start(Tail(src)) ELSE src

\* str::find: the index (from 1) of the first character of src in the set
\* stop, or 0 when there is none.
find(src, stop) ==
    IF \A k \in 1..Len(src) : src[k] \notin stop THEN 0
    ELSE CHOOSE k \in 1..Len(src) :
            src[k] \in stop /\ \A j \in 1..(k - 1) : src[j] \notin stop
\* The characters that end a token: whitespace and the closing parenthesis.
TokenEnd == {" ", "\n", ")"}

\* Text as a String value holds it.
RECURSIVE Text(_)
Text(chars) ==
    IF chars = <<>> THEN "" ELSE Head(chars) \o Text(Tail(chars))

\* The outcome of parse_next: Ok(result) or Err(msg), and self.state as the
\* call leaves it.
Parsed(kind, msg, result, state) ==
    [kind |-> kind, msg |-> msg, result |-> result, state |-> state]

\* The closure add_value: the value goes into the innermost open list, or
\* into result when no list is open.
add_value(value, state, result) ==
    IF state = <<>> THEN [state |-> state, result |-> Append(result, value)]
    ELSE [state |-> [state EXCEPT ![Len(state)] = List(Append(@.l, value))],
          result |-> result]

\* One turn of the loop of parse_next ends in one of two ways: the loop
\* goes on with the rest of src (a is the state and result add_value has
\* left), or parse_next returns an error.
go(a, rest) ==
    [next |-> TRUE, state |-> a.state, result |-> a.result, src |-> rest,
     msg |-> ""]
fail(state, m) ==
    [next |-> FALSE, state |-> state, result |-> <<>>, src |-> <<>>, msg |-> m]

\* src from index from on: &src[from - 1..].
SliceFrom(src, from) == SubSeq(src, from, Len(src))

\* src starts with ";": end_pos is where the line ends.
comment(state, result, src, end_pos) ==
    go([state |-> state, result |-> result],
       IF end_pos = 0 THEN <<>> ELSE SliceFrom(src, end_pos))

\* The closing parenthesis with no list open.
unmatched(state) == fail(state, "Unmatched closing parenthesis")

\* src starts with ")".
close(state, result, src) ==
    IF state = <<>> THEN unmatched(state)
    ELSE go(add_value(state[Len(state)], SubSeq(state, 1, Len(state) - 1),
                      result),
            Tail(src))

\* src is what follows the opening quote: end_pos is where the string ends.
string(state, result, src, end_pos) ==
    IF end_pos = 0 THEN fail(state, "Unterminated string")
    ELSE go(add_value(String(Text(SubSeq(src, 1, end_pos - 1))), state, result),
            SliceFrom(src, end_pos + 1))

\* token is the text up to the next white space or ")", i64_value what
\* str::parse::<i64> makes of it, rest the text after it.
atom(state, result, token, i64_value, rest) ==
    IF i64_value.ok
    THEN go(add_value(Integer(i64_value.i), state, result), rest)
    ELSE IF is_symbol(token)
    THEN go(add_value(Symbol(Text(token)), state, result), rest)
    ELSE fail(state, "Unsupported token")
token_at(state, result, src, end_pos) ==
    atom(state, result,
         IF end_pos = 0 THEN src ELSE SubSeq(src, 1, end_pos - 1),
         parse_i64(IF end_pos = 0 THEN src ELSE SubSeq(src, 1, end_pos - 1)),
         IF end_pos = 0 THEN <<>> ELSE SliceFrom(src, end_pos))

\* One turn of the loop of parse_next on a src that is trimmed and not
\* empty.
parse_step(state, result, src) ==
    IF Head(src) = ";" THEN comment(state, result, src, find(src, {"\n"}))
    ELSE IF Head(src) = "("
    THEN go([state |-> Append(state, List(<<>>)), result |-> result], Tail(src))
    ELSE IF Head(src) = ")" THEN close(state, result, src)
    ELSE IF Head(src) = "\""
    THEN string(state, result, Tail(src), find(Tail(src), {"\""}))
    ELSE token_at(state, result, src, find(src, TokenEnd))

\* The loop of parse_next: src is trimmed; when nothing is left the call
\* returns result, else it takes one turn, t, and goes on from there.
RECURSIVE parse_loop(_, _, _)
parse_turn(t) ==
    IF ~t.next THEN Parsed("err", t.msg, <<>>, t.state)
    ELSE parse_loop(t.state, t.result, t.src)
parse_trimmed(state, result, src) ==
    IF src = <<>> THEN Parsed("ok", "", result, state)
    ELSE parse_turn(parse_step(state, result, src))
parse_loop(state, result, src) == parse_trimmed(state, result, trim_start(src))

\* A variant: every call starts with no list open.
state_reset(state) == <<>>
\* The stack of open lists a call of parse_next starts with: self.state,
\* as the call before left it.
state_kept(state) == state

\* Parser::new and Parser::parse_next.
Parser_new == <<>>
parse_next(state, src) == parse_loop(state_kept(state), <<>>, src)

\* Parser::finish.
finish(state) == IF state = <<>> THEN "ok" ELSE "err"

(***************************************************************************)
(* eval.rs: Context.                                                       *)
(***************************************************************************)
bind_value(b, name, value) == Insert(b, name, value)
bind_fn(b, name) == bind_value(b, name, Function(NativeName(name), NativeFun(name)))

\* A variant: the global table is consulted first.
resolve_global_first(local, bindings, key) ==
    IF key \in DOMAIN bindings THEN [some |-> TRUE, val |-> bindings[key]]
    ELSE IF key \in DOMAIN local THEN [some |-> TRUE, val |-> local[key]]
    ELSE [some |-> FALSE, val |-> Nil]

\* Context::resolve.
resolve(local, bindings, key) ==
    IF key \in DOMAIN local THEN [some |-> TRUE, val |-> local[key]]
    ELSE IF key \in DOMAIN bindings THEN [some |-> TRUE, val |-> bindings[key]]
    ELSE [some |-> FALSE, val |-> Nil]

CoreEnv_bind(b) ==
    bind_fn(bind_fn(bind_fn(bind_fn(b, "def"), "if"), "fn"), "import")
OpsEnv_bind(b) == bind_fn(bind_fn(b, "+"), "=")
ListEnv_bind(b) ==
    bind_fn(bind_fn(bind_fn(bind_fn(bind_fn(b, "list"), "first"), "rest"),
                    "cons"), "empty?")

Context_new ==
    ListEnv_bind(OpsEnv_bind(CoreEnv_bind(
        bind_value(bind_value(bind_value(EmptyMap, "nil", Nil),
                              "true", Bool(TRUE)),
                   "false", Bool(FALSE)))))

(***************************************************************************)
(* The machine eval runs on:                                               *)
(*   g      the HashMap behind Context.bindings (one table, shared by      *)
(*          every Context through the Rc)                                  *)
(*   rc     the strong count of that Rc                                    *)
(*   uuid   the number of uuids drawn so far (Uuid::new_v4 is modelled as  *)
(*          a source of names that never repeats)                          *)
(*   app    the number of closure applications started so far              *)
(*   overflow_checks  whether the build panics on integer overflow (debug) *)
(*          or wraps (release)                                             *)
(*   log    the events of this evaluation                                  *)
(***************************************************************************)
Machine(g, uuid, overflow_checks) ==
    [g |-> g, rc |-> 1, uuid |-> uuid, app |-> 0,
     overflow_checks |-> overflow_checks, log |-> <<>>]

\* i64 addition, wrapped to the width of the model.
WrapAdd(a, b) ==
    LET s == a + b
    IN  IF s > IntMax THEN s - IntMod
        ELSE IF s < IntMin THEN s + IntMod
        ELSE s
Overflows(a, b) == a + b > IntMax \/ a + b < IntMin

\* Rc::get_mut(&mut ctx.bindings): Some only for the sole owner.
Rc_get_mut(st) == st.rc = 1

\* HashMap::insert on the table behind the Rc.
bindings_insert(g, name, value) == Insert(g, name, value)

\* A variant: the next iteration is a call of its own.
loop_depth_call(d) == d + 1
\* The depth at which the trampoline runs its next iteration: it is a loop
\* inside one call of the closure, so the depth of that call.
loop_depth(d) == d

\* The Context a closure is applied in takes a clone of the caller's Rc.
Rc_clone(st) == [st EXCEPT !.rc = @ + 1]
Rc_drop(r) == [r EXCEPT !.st.rc = @ - 1]

RECURSIVE eval(_, _, _, _)
RECURSIVE call(_, _, _, _, _)
RECURSIVE add_loop(_, _, _, _, _)
RECURSIVE eq_loop(_, _, _, _, _)
RECURSIVE list_loop(_, _, _, _, _)
RECURSIVE bind_args(_, _, _, _, _, _)
RECURSIVE arg_values_loop(_, _, _, _, _)
RECURSIVE trampoline(_, _, _, _, _)

\* OpsEnv::add, the for loop: result is the sum so far.
add_loop(local, args, result, d, st) ==
    IF args = <<>> THEN Ok(Integer(result), st)
    ELSE LET r == eval(local, Head(args), d + 1, st)
         IN  IF r.kind # "ok" THEN r
             ELSE IF r.val.tag = "Integer"
             THEN IF Overflows(result, r.val.i) /\ r.st.overflow_checks
                  THEN Panic("attempt to add with overflow", r.st)
                  ELSE add_loop(local, Tail(args), WrapAdd(result, r.val.i),
                                d, r.st)
             ELSE Err(Msg("Calling function '+' with arg"), r.st)

add(local, args, d, st) == add_loop(local, args, 0, d, st)

\* OpsEnv::eq, the for loop: value is the value of the first argument.
eq_loop(local, args, value, d, st) ==
    IF args = <<>> THEN Ok(Bool(TRUE), st)
    ELSE LET r == eval(local, Head(args), d + 1, st)
         IN  IF r.kind # "ok" THEN r
             ELSE IF ~ValueEq(value, r.val) THEN Ok(Bool(FALSE), r.st)
             ELSE eq_loop(local, Tail(args), value, d, r.st)

eq(local, args, d, st) ==
    IF args = <<>> THEN Err(Msg("Function '=' called without arguments"), st)
    ELSE LET r == eval(local, Head(args), d + 1, st)
         IN  IF r.kind # "ok" THEN r
             ELSE eq_loop(local, Tail(args), r.val, d, r.st)

\* CoreEnv::def.
def(local, args, d, st) ==
    IF Len(args) # 2 THEN Err(Msg("Invalid arguments for def"), st)
    ELSE IF args[1].tag = "Symbol"
    THEN LET r == eval(local, args[2], d + 1, st)
         IN  IF r.kind # "ok" THEN r
             ELSE IF ~Rc_get_mut(r.st)
             THEN Panic("called Option::unwrap() on a None value", r.st)
             ELSE Ok(Nil, [r.st EXCEPT
                             !.g = bindings_insert(@, args[1].s, r.val)])
    ELSE Err(Msg("'def' first argument must by symbol"), st)

\* A variant: Integer(0) counts as false too.
IsFalsyOrZero(v) ==
    \/ (v.tag = "Bool" /\ v.b = FALSE)
    \/ v.tag = "Nil"
    \/ (v.tag = "Integer" /\ v.i = 0)
\* The values if_fn takes for false.
IsFalsy(v) == (v.tag = "Bool" /\ v.b = FALSE) \/ v.tag = "Nil"

\* CoreEnv::if_fn.
if_fn(local, args, d, st) ==
    IF Len(args) \in {2, 3}
    THEN LET r == eval(local, args[1], d + 1, st)
         IN  IF r.kind # "ok" THEN r
             ELSE IF IsFalsy(r.val)
             THEN IF Len(args) = 3 THEN eval(local, args[3], d + 1, r.st)
                  ELSE Ok(Nil, r.st)
             ELSE eval(local, args[2], d + 1, r.st)
    ELSE Err(Msg("Function 'if' requires 2 or 3 arguments"), st)

\* The name lambda_fn gives the closure: Uuid::new_v4().to_string().
new_name(st) == UuidName(st.uuid + 1)

\* A variant: the closure keeps a clone of the Rc for as long as it lives.
closure_captures_handle(st) == Rc_clone(st)
\* What the closure keeps of the Context it is created in, besides
\* local_copy: nothing (it takes no handle to the global table).
closure_captures(st) == st

\* CoreEnv::lambda_fn: the fn form itself.
lambda_fn(local, args, d, st) ==
    IF Len(args) = 2 /\ args[1].tag = "List"
    THEN LET arg_bindings == args[1].l
             body == args[2]
         IN  IF \E k \in 1..Len(arg_bindings) : arg_bindings[k].tag # "Symbol"
             THEN Err(Msg("Function arguments must be symbols"), st)
             ELSE LET bindings == [k \in 1..Len(arg_bindings) |->
                                     arg_bindings[k].s]
                      local_copy == local
                  IN  Ok(Function(new_name(st),
                                  ClosureFun(bindings, body, local_copy)),
                         closure_captures([st EXCEPT !.uuid = @ + 1]))
    ELSE Err(Msg("'fn' has form (fn (arg1 arg2 ...) body)"), st)

\* ListEnv::list, the for loop: list_values is the list so far.
list_loop(local, args, list_values, d, st) ==
    IF args = <<>> THEN Ok(List(list_values), st)
    ELSE LET r == eval(local, Head(args), d + 1, st)
         IN  IF r.kind # "ok" THEN r
             ELSE list_loop(local, Tail(args), Append(list_values, r.val),
                            d, r.st)

list(local, args, d, st) == list_loop(local, args, <<>>, d, st)

\* ListEnv::first.
first(local, args, d, st) ==
    IF Len(args) # 1 THEN Err(Msg("Function 'first' requires 1 argument"), st)
    ELSE LET r == eval(local, args[1], d + 1, st)
         IN  IF r.kind # "ok" THEN r
             ELSE IF r.val.tag = "List"
             THEN IF Len(r.val.l) > 0 THEN Ok(Head(r.val.l), r.st)
                  ELSE Err(Msg("Function 'first' requires non-empty list"), r.st)
             ELSE Err(Msg("Only list is supported for 'first' function"), r.st)

\* ListEnv::rest.
rest(local, args, d, st) ==
    IF Len(args) # 1 THEN Err(Msg("Function 'rest' requires 1 argument"), st)
    ELSE LET r == eval(local, args[1], d + 1, st)
         IN  IF r.kind # "ok" THEN r
             ELSE IF r.val.tag = "List"
             THEN IF Len(r.val.l) > 0 THEN Ok(List(Tail(r.val.l)), r.st)
                  ELSE Err(Msg("Function 'rest' requires non-empty list"), r.st)
             ELSE Ok(r.val, r.st)

\* A variant: the head goes to the back of the list.
push_back(elements, head) == Append(elements, head)
\* elements.push_front(head).
push_front(elements, head) == <<head>> \o elements

\* ListEnv::cons.
cons(local, args, d, st) ==
    IF Len(args) # 2 THEN Err(Msg("Function 'cons' requires 2 arguments"), st)
    ELSE LET h == eval(local, args[1], d + 1, st)
         IN  IF h.kind # "ok" THEN h
             ELSE LET t == eval(local, args[2], d + 1, h.st)
                  IN  IF t.kind # "ok" THEN t
                      ELSE IF t.val.tag = "List"
                      THEN Ok(List(push_front(t.val.l, h.val)), t.st)
                      ELSE Err(Msg("Only list is supported for 'cons' function 2nd argument"),
                               t.st)

\* ListEnv::empty.
empty(local, args, d, st) ==
    IF Len(args) # 1 THEN Err(Msg("Function 'empty' requires 1 argument"), st)
    ELSE LET r == eval(local, args[1], d + 1, st)
         IN  IF r.kind # "ok" THEN r
             ELSE IF r.val.tag = "List"
             THEN Ok(Bool(r.val.l = <<>>), r.st)
             ELSE Err(Msg("Only list is supported for 'empty' function"), r.st)

(***************************************************************************)
(* The files import can be asked for.  opens: File::open succeeds;         *)
(* read_ok: read_to_string succeeds; src: what src holds after             *)
(* read_to_string has returned (the whole text when it succeeds, what it   *)
(* had read when it fails).                                                *)
(***************************************************************************)
FileOf(opens, read_ok, src) == [opens |-> opens, read_ok |-> read_ok, src |-> src]
\* (def y 1)
DefY1Text == <<"(", "d", "e", "f", " ", "y", " ", "1", ")">>
\* (def y x)
DefYXText == <<"(", "d", "e", "f", " ", "y", " ", "x", ")">>
Files ==
    ("lib" :> FileOf(TRUE, TRUE, DefY1Text \o <<"\n">>))
    @@ ("two" :> FileOf(TRUE, TRUE, DefY1Text \o <<" ">> \o DefYXText))
    @@ ("dir" :> FileOf(TRUE, FALSE, <<>>))
    @@ ("cut" :> FileOf(TRUE, FALSE, DefY1Text))
    @@ ("tok" :> FileOf(TRUE, TRUE, DefY1Text \o <<" ", "1", "a">>))
    @@ ("close" :> FileOf(TRUE, TRUE, DefY1Text \o <<")">>))
    @@ ("str" :> FileOf(TRUE, TRUE, DefY1Text \o <<" ", "\"", "a">>))
    @@ ("open" :> FileOf(TRUE, TRUE, DefY1Text \o <<" ", "(", "y">>))
    @@ ("locked" :> FileOf(FALSE, FALSE, <<>>))
\* File::open(path): Ok for a file that is there and may be read.
File_open(path) == path \in DOMAIN Files /\ Files[path].opens
\* f.read_to_string(&mut src): src afterwards.
read_to_string(path) == Files[path].src

\* for value in file_parser.parse_next(&src)? { eval(ctx, value)?; }
RECURSIVE import_loop(_, _, _, _)
import_loop(local, values, d, st) ==
    IF values = <<>> THEN Ok(Nil, st)
    ELSE LET r == eval(local, Head(values), d + 1, st)
         IN  IF r.kind # "ok" THEN r
             ELSE import_loop(local, Tail(values), d, r.st)

\* file_parser.finish()? and Ok(Value::Nil), after the for loop has ended
\* with r.
import_finish(state, r) ==
    IF r.kind # "ok" THEN r
    ELSE IF finish(state) = "err"
    THEN Err(Msg("Syntax error, partially parsed state"), r.st)
    ELSE Ok(Nil, r.st)
\* p is what file_parser.parse_next(&src) has returned.
import_parsed(local, p, d, st) ==
    IF p.kind = "err" THEN Err(Msg(p.msg), st)
    ELSE import_finish(p.state, import_loop(local, p.result, d, st))
\* path is the text of the String literal.
import_path(local, path, d, st) ==
    IF ~File_open(path) THEN Err(Msg("Can't read file"), st)
    ELSE import_parsed(local, parse_next(Parser_new, read_to_string(path)),
                       d, st)

\* CoreEnv::import.  The Result of read_to_string is bound to _size and not
\* looked at.
import(local, args, d, st) ==
    IF Len(args) # 1 THEN Err(Msg("Import form expects 1 path argument"), st)
    ELSE IF args[1].tag = "String" THEN import_path(local, args[1].s, d, st)
    ELSE Err(Msg("Expected string as argument to 'import'"), st)

(***************************************************************************)
(* The closure lambda_fn returns (eval.rs lines 107-160).                  *)
(***************************************************************************)
\* A variant: surplus arguments are accepted (zip drops them).
arity_at_least(bindings, args) == Len(bindings) <= Len(args)
\* The arity check of the closure.
arity_ok(bindings, args) == Len(bindings) = Len(args)

\* A variant: argument forms are evaluated in the callee's mapping.
arg_ctx_callee(global_local, local_ctx_local) == local_ctx_local
\* The local mapping an argument form is evaluated in: the caller's
\* (global_ctx), not the one under construction (local_ctx).
arg_ctx_local(global_local, local_ctx_local) == global_local

\* for (name, bound_node) in bindings.iter().zip(args): each argument form
\* is evaluated and bound under its name in local_ctx.local.
bind_args(bindings, args, global_local, local_ctx_local, d, st) ==
    IF bindings = <<>> \/ args = <<>> THEN Ok(local_ctx_local, st)
    ELSE LET r == eval(arg_ctx_local(global_local, local_ctx_local),
                       Head(args), d + 1, st)
         IN  IF r.kind # "ok" THEN r
             ELSE bind_args(Tail(bindings), Tail(args), global_local,
                            Insert(local_ctx_local, Head(bindings), r.val),
                            d, r.st)

\* for value in elements: arg_values.push(eval(&mut local_ctx, value)?).
arg_values_loop(local, elements, arg_values, d, st) ==
    IF elements = <<>> THEN Ok(arg_values, st)
    ELSE LET r == eval(local, Head(elements), d + 1, st)
         IN  IF r.kind # "ok" THEN r
             ELSE arg_values_loop(local, Tail(elements),
                                  Append(arg_values, r.val), d, r.st)

\* for (name, bound_value) in bindings.iter().zip(arg_values): insert.
RECURSIVE rebind(_, _, _)
rebind(bindings, arg_values, local) ==
    IF bindings = <<>> \/ arg_values = <<>> THEN local
    ELSE rebind(Tail(bindings), Tail(arg_values),
                Insert(local, Head(bindings), arg_values[1]))

\* A variant: each new value is bound as soon as it is computed, so the
\* next argument form sees it.
RECURSIVE recur_step_in_place(_, _, _, _, _)
recur_step_in_place(bindings, elements, local, d, st) ==
    IF bindings = <<>> \/ elements = <<>> THEN Ok(local, st)
    ELSE LET r == eval(local, Head(elements), d + 1, st)
         IN  IF r.kind # "ok" THEN r
             ELSE recur_step_in_place(Tail(bindings), Tail(elements),
                                      Insert(local, Head(bindings), r.val),
                                      d, r.st)

\* One recur step: the new values are all computed in the local mapping of
\* the current iteration, and only then bound.  Ok carries the new mapping.
recur_step(bindings, elements, local, d, st) ==
    LET a == arg_values_loop(local, elements, <<>>, d, st)
    IN  IF a.kind # "ok" THEN a
        ELSE Ok(rebind(bindings, a.val, local), a.st)

\* let result = loop { ... }: one call per iteration of the loop.
trampoline(fun, local, d, st, app) ==
    LET r == eval(local, fun.body, d + 1,
                  Logged(st, IterEvent(fun, d, local, app, st)))
    IN  IF r.kind # "ok" THEN r
        ELSE IF IsRecur(r.val)
        THEN LET elements == Tail(r.val.l)
                 st2 == Logged(r.st, RecurEvent(fun, elements, d, local, app, r.st))
             IN  IF Len(elements) # Len(fun.bindings)
                 THEN Err(MsgCounts("Wrong number of arguments passed to 'recur'",
                                    Len(fun.bindings), Len(elements)), st2)
                 ELSE LET n == recur_step(fun.bindings, elements, local, d, st2)
                      IN  IF n.kind # "ok" THEN n
                          ELSE trampoline(fun, n.val, loop_depth(d), n.st, app)
        ELSE r

\* The closure f, applied to unevaluated args in the caller's Context.
closure_call(fun, global_local, args, d, st) ==
    LET app == st.app + 1
        st0 == Logged([st EXCEPT !.app = app],
                      ApplyEvent(fun, args, d, global_local, app, st))
    IN  IF ~arity_ok(fun.bindings, args)
        THEN Err(MsgCounts("Wrong number of arguments",
                           Len(fun.bindings), Len(args)), st0)
        ELSE LET b == bind_args(fun.bindings, args, global_local,
                                fun.local_copy, d, Rc_clone(st0))
                 r == IF b.kind # "ok" THEN b
                      ELSE trampoline(fun, b.val, d, b.st, app)
             IN  IF r.kind = "panic" THEN r ELSE Rc_drop(r)

\* The machine once a native function has been entered.
NativeCalled(fun, local, args, d, st) ==
    Logged(st, NativeEvent(fun.kind, args, d, local, st))

\* Function { fun, .. } => fun(ctx, elements).
call(fun, local, args, d, st) ==
    CASE fun.kind = "closure" -> closure_call(fun, local, args, d, st)
      [] fun.kind = "+" -> add(local, args, d, NativeCalled(fun, local, args, d, st))
      [] fun.kind = "=" -> eq(local, args, d, NativeCalled(fun, local, args, d, st))
      [] fun.kind = "def" -> def(local, args, d, NativeCalled(fun, local, args, d, st))
      [] fun.kind = "if" -> if_fn(local, args, d, NativeCalled(fun, local, args, d, st))
      [] fun.kind = "fn" ->
            lambda_fn(local, args, d, NativeCalled(fun, local, args, d, st))
      [] fun.kind = "import" ->
            import(local, args, d, NativeCalled(fun, local, args, d, st))
      [] fun.kind = "list" -> list(local, args, d, NativeCalled(fun, local, args, d, st))
      [] fun.kind = "first" ->
            first(local, args, d, NativeCalled(fun, local, args, d, st))
      [] fun.kind = "rest" -> rest(local, args, d, NativeCalled(fun, local, args, d, st))
      [] fun.kind = "cons" -> cons(local, args, d, NativeCalled(fun, local, args, d, st))
      [] fun.kind = "empty?" ->
            empty(local, args, d, NativeCalled(fun, local, args, d, st))

\* A variant: eval has no special case for recur.
no_recur_case(value) == FALSE
\* The special case of eval: a list headed by the symbol recur.
recur_case(value) == IsRecur(value)

\* The match on the evaluated head of a list: head is its outcome.
apply_head(local, value, d, head) ==
    CASE head.kind # "ok" -> head
      [] head.val.tag = "Function" ->
            call(head.val.fun, local, Tail(value.l), d + 1, head.st)
      [] OTHER -> Err(Msg("Value is not a function"), head.st)

\* pub fn eval, without the log.
eval_value(local, value, d, st) ==
    CASE value.tag = "Symbol" ->
            LET v == resolve(local, st.g, value.s)
            IN  IF v.some THEN Ok(v.val, st)
                ELSE Err(Msg("Can't resolve symbol"), st)
      [] value.tag = "List" /\ recur_case(value) -> Ok(value, st)
      [] value.tag = "List" /\ value.l = <<>> ->
            Err(Msg("Can't evaluate empty list"), st)
      [] value.tag = "List" ->
            apply_head(local, value, d, eval(local, Head(value.l), d + 1, st))
      [] OTHER -> Ok(value, st)

\* pub fn eval.
eval(local, value, d, st) ==
    LET r == eval_value(local, value, d,
                        Logged(st, EvalEvent(value, d, local, st)))
    IN  [r EXCEPT !.st = Logged(@, RetEvent(value, d, local, r))]

(***************************************************************************)
(* The driver: one Context for the session, one top-level form per step.   *)
(***************************************************************************)
VARIABLES
    bindings,         \* context.bindings: the global table
    strong_count,     \* the strong count of the Rc holding it
    uuid,             \* uuids drawn so far
    overflow_checks,  \* the build: TRUE panics on integer overflow
    status,           \* "running", or "aborted" once the process has ended
    form,             \* the top-level form evaluated last
    result,           \* its outcome
    log,              \* the events of its evaluation
    state,            \* parser.state: the stack of open lists
    parsed,           \* the last call of parse_next: its src and outcome
    finished,         \* the outcome of parser.finish(), once called
    fed,              \* all the text given to parse_next so far
    emitted           \* all the values parse_next has returned so far

vars ==
    <<bindings, strong_count, uuid, overflow_checks, status, form, result, log,
      state, parsed, finished, fed, emitted>>
parser_vars == <<state, parsed, finished, fed, emitted>>
eval_vars == <<bindings, strong_count, uuid, form, result, log>>

NoResult == [kind |-> "none", val |-> Nil, err |-> NoErr]
NoParse == [kind |-> "none", msg |-> "", result |-> <<>>, src |-> <<>>]

Init ==
    /\ bindings = Context_new
    /\ strong_count = 1
    /\ uuid = 0
    /\ overflow_checks \in BOOLEAN
    /\ status = "running"
    /\ form = Nil
    /\ result = NoResult
    /\ log = <<>>
    /\ state = Parser_new
    /\ parsed = NoParse
    /\ finished = "none"
    /\ fed = <<>>
    /\ emitted = <<>>

\* The driver reads on while the process lives.
Running == status = "running"

\* main: eval(&mut context, elem).unwrap() -- an Err ends the process like a
\* panic does.
TopLevel(elem) ==
    /\ LET st == [Machine(bindings, uuid, overflow_checks) EXCEPT
                    !.rc = strong_count]
           r == eval(EmptyMap, elem, 0, st)
       IN  /\ r.st.uuid <= MaxUuid
           /\ bindings' = r.st.g
           /\ strong_count' = r.st.rc
           /\ uuid' = r.st.uuid
           /\ form' = elem
           /\ result' = [kind |-> r.kind, val |-> r.val, err |-> r.err]
           /\ log' = r.st.log
           /\ status' = IF r.kind = "ok" THEN "running" ELSE "aborted"
    /\ UNCHANGED overflow_checks
    /\ UNCHANGED parser_vars

(***************************************************************************)
(* The forms the driver is given.                                          *)
(***************************************************************************)
Sym(s) == Symbol(s)
Num(i) == Integer(i)
Form(l) == List(l)
Syms(names) == List([k \in 1..Len(names) |-> Symbol(names[k])])
Fn(params, body) == Form(<<Sym("fn"), Syms(params), body>>)
Def(name, v) == Form(<<Sym("def"), Sym(name), v>>)
If3(c, t, e) == Form(<<Sym("if"), c, t, e>>)
Add2(a, b) == Form(<<Sym("+"), a, b>>)
Eq2(a, b) == Form(<<Sym("="), a, b>>)
ListOf(l) == Form(<<Sym("list")>> \o l)
Recur(l) == Form(<<Sym("recur")>> \o l)

\* (fn (n acc) (if (= n 0) acc (recur (+ n -1) (+ acc n))))
SumLoopFn ==
    Fn(<<"n", "acc">>,
       If3(Eq2(Sym("n"), Num(0)), Sym("acc"),
           Recur(<<Add2(Sym("n"), Num(-1)), Add2(Sym("acc"), Sym("n"))>>)))
\* (fn (n) (if (= n 0) 0 (+ n (f (+ n -1))))), to be bound to f
SumRecFn ==
    Fn(<<"n">>,
       If3(Eq2(Sym("n"), Num(0)), Num(0),
           Add2(Sym("n"), Form(<<Sym("f"), Add2(Sym("n"), Num(-1))>>))))
ReadXFn == Fn(<<>>, Sym("x"))
DefYFn == Fn(<<>>, Def("y", Num(1)))
IdentFn == Fn(<<"a">>, Sym("a"))

\* (fn (a) (+ a x))
AddXFn == Fn(<<"a">>, Add2(Sym("a"), Sym("x")))
\* ((fn (a) (fn () (list a x))) 1): a closure made by a closure
MadeReader ==
    Form(<<Fn(<<"a">>, Fn(<<>>, ListOf(<<Sym("a"), Sym("x")>>))), Num(1)>>)
\* Closures a session binds to f.
StoredFns == {ReadXFn, DefYFn, IdentFn, SumRecFn, AddXFn, MadeReader}
\* Argument lists f is called with.
CallArgs ==
    {<<>>, <<Sym("x")>>, <<Def("y", Num(1))>>, <<Num(1), Num(2)>>}
        \cup {<<Num(n)>> : n \in 0..MaxN}

\* ((fn (a b) (list ((fn (a b) (list a b)) b a) a b)) a0 b0): the inner
\* call names the caller's locals in the other order.
SwapCall(a0, b0) ==
    Form(<<Fn(<<"a", "b">>,
              ListOf(<<Form(<<Fn(<<"a", "b">>, ListOf(<<Sym("a"), Sym("b")>>)),
                              Sym("b"), Sym("a")>>),
                       Sym("a"), Sym("b")>>)),
           a0, b0>>)
\* ((fn (h) ((fn (a) (h a)) a0)) ((fn (a) (fn (b) (list a b))) c0)): h has
\* captured a = c0 and is called from a closure whose own a is a0.
CapturedCall(a0, c0) ==
    Form(<<Fn(<<"h">>,
              Form(<<Fn(<<"a">>, Form(<<Sym("h"), Sym("a")>>)), a0>>)),
           Form(<<Fn(<<"a">>, Fn(<<"b">>, ListOf(<<Sym("a"), Sym("b")>>))),
                  c0>>)>>)
\* (((fn (cn) (fn (pn) sym)) 8) 7): sym is looked up in a closure with
\* parameter pn = 7 and captured local cn = 8.
ResolveCall(pn, cn, sym) ==
    Form(<<Form(<<Fn(<<cn>>, Fn(<<pn>>, Sym(sym))), Num(8)>>), Num(7)>>)
\* ((fn (h) ((fn (c) (h)) 5)) (fn () sym)): h is called from a closure whose
\* local c = 5 it has not captured.
DynamicCall(sym) ==
    Form(<<Fn(<<"h">>, Form(<<Fn(<<"c">>, Form(<<Sym("h")>>)), Num(5)>>)),
           Fn(<<>>, Sym(sym))>>)
\* ((fn (first k of a b) 0) m arguments)
ArityCall(k, m) ==
    Form(<<Fn(SubSeq(<<"a", "b">>, 1, k), Num(0))>>
         \o SubSeq(<<Sym("x"), Def("y", Num(1)), Num(3)>>, 1, m))
\* ((fn (a) (if (= a 1) (recur 0) (if (= a 0) (recur m arguments) a))) 1)
RecurArityCall(m) ==
    Form(<<Fn(<<"a">>,
              If3(Eq2(Sym("a"), Num(1)), Recur(<<Num(0)>>),
                  If3(Eq2(Sym("a"), Num(0)),
                      Recur(SubSeq(<<Num(2), Def("y", Num(1)), Sym("x")>>, 1, m)),
                      Sym("a")))),
           Num(1)>>)

LocalNames == {"a", "b", "x"}

CallForms ==
    {Form(<<SumLoopFn, Num(n), Num(0)>>) : n \in 0..MaxN}
        \cup {Form(<<DefYFn>>), Form(<<IdentFn, Def("y", Num(1))>>)}
        \cup {SwapCall(Num(1), Num(2)), SwapCall(Sym("x"), Num(1))}
        \cup {CapturedCall(Num(5), Num(10)), CapturedCall(Sym("x"), Num(10))}
        \cup {ResolveCall(pn, cn, sym) : pn \in LocalNames, cn \in LocalNames,
                                         sym \in LocalNames}
        \cup {DynamicCall(sym) : sym \in {"c", "x"}}
        \cup {ArityCall(k, m) : k \in 0..2, m \in 0..3}
        \cup {RecurArityCall(m) : m \in 0..3}

\* (def x v) at top level.
DefValue == \E v \in {Num(1), Num(2)} : Running /\ TopLevel(Def("x", v))

\* (def f (fn ...)) at top level.
DefClosureOf(fns) == \E fn \in fns : Running /\ TopLevel(Def("f", fn))
DefClosure == DefClosureOf(StoredFns)

\* (f args...) at top level.
CallStored ==
    \E args \in CallArgs : Running /\ TopLevel(Form(<<Sym("f")>> \o args))

\* ((fn ...) args...) at top level.
CallFn == \E f \in CallForms : Running /\ TopLevel(f)

\* Lists headed by recur; none of their elements can be evaluated with
\* success and without trace.
RecurLists ==
    {Recur(<<>>), Recur(<<Sym("z")>>), Recur(<<Def("y", Num(1)), Num(1)>>),
     Recur(<<Form(<<>>), Sym("recur")>>)}
\* A recur list at top level, as the argument of a builtin, in the body of a
\* closure but not as its value, and as the argument of a closure.
RecurForms ==
    UNION {{rl, ListOf(<<Num(1), rl>>), Form(<<Sym("empty?"), rl>>),
            Form(<<Fn(<<>>, ListOf(<<rl>>))>>),
            Form(<<Fn(<<"a">>, Num(0)), rl>>),
            Form(<<IdentFn, rl>>)} : rl \in RecurLists}

\* (def recur 5) at top level.
DefRecur == Running /\ TopLevel(Def("recur", Num(5)))

\* A form with a recur list in it, at top level.
EvalRecur == \E f \in RecurForms : Running /\ TopLevel(f)

ThenForm == Add2(Num(10), Num(1))
ElseForm == Add2(Num(20), Num(2))
IfConds ==
    {Sym("false"), Sym("nil"), Sym("true"), Num(0), Num(1), ListOf(<<>>),
     String("s"), String(""), Sym("x"), Sym("+"), Eq2(Num(1), Num(2)),
     Eq2(Num(1), Num(1))}
IfForms ==
    UNION {{Form(<<Sym("if"), c, ThenForm, ElseForm>>),
            Form(<<Sym("if"), c, ThenForm>>),
            Form(<<Sym("if"), c>>),
            Form(<<Sym("if"), c, ThenForm, ElseForm, c>>)} : c \in IfConds}
        \cup {Form(<<Sym("if")>>)}

\* (if ...) at top level.
EvalIf == \E f \in IfForms : Running /\ TopLevel(f)

\* (first (list x (def x (if (= x 1) 2 1)))): the value of x, which it
\* then changes.
ToggleX ==
    Form(<<Sym("first"),
           ListOf(<<Sym("x"),
                    Def("x", If3(Eq2(Sym("x"), Num(1)), Num(2), Num(1)))>>)>>)
EqArgs ==
    {Num(1), String("s"), Sym("nil"), Sym("true"), ListOf(<<>>),
     ListOf(<<Num(1), String("s")>>), Sym("x"), Sym("f"), Sym("+"),
     ListOf(<<Sym("f"), Sym("=")>>), Form(<<Sym("f"), Num(1)>>),
     IdentFn, ListOf(<<IdentFn>>), ToggleX}

\* (= a a) and (=) at top level.
EvalEq ==
    \E f \in {Eq2(a, a) : a \in EqArgs} \cup {Form(<<Sym("=")>>)} :
        Running /\ TopLevel(f)

\* A session that defines globals, stores closures and calls them.
Next == DefValue \/ DefClosure \/ CallStored
Spec == Init /\ [][Next]_vars

\* A session that defines globals and applies closures where they are made.
NextCall == DefValue \/ CallFn
SpecCall == Init /\ [][NextCall]_vars

\* A session that evaluates recur lists, with recur bound or not.
NextRecur == DefRecur \/ EvalRecur
SpecRecur == Init /\ [][NextRecur]_vars

\* A session that defines x and evaluates if forms.
NextIf == DefValue \/ EvalIf
SpecIf == Init /\ [][NextIf]_vars

\* A session that defines x, stores a closure and compares.
DefComparable == DefClosureOf({IdentFn, MadeReader})
NextEq == DefValue \/ DefComparable \/ EvalEq
SpecEq == Init /\ [][NextEq]_vars

(***************************************************************************)
(* Reading the log.                                                        *)
(***************************************************************************)
IsCallOf(v, head) ==
    v.tag = "List" /\ Len(v.l) > 0 /\ v.l[1] = Sym(head)
IsTopDef(v) == IsCallOf(v, "def") /\ Len(v.l) = 3 /\ v.l[2].tag = "Symbol"
IsClosure(v) == v.tag = "Function" /\ v.fun.kind = "closure"

\* The value form of the top-level def evaluated last was evaluated to a
\* value: the last return but one is its return.
DefValueOk ==
    /\ Len(log) >= 2
    /\ log[Len(log) - 1].ev = "ret"
    /\ log[Len(log) - 1].form = form.l[3]
    /\ log[Len(log) - 1].depth = 2
    /\ log[Len(log) - 1].kind = "ok"

\* In lg, every lookup of name that no local binding shadows returns v.
GlobalReadsSee(lg, name, v) ==
    \A i \in 1..Len(lg) :
        (lg[i].ev = "eval" /\ lg[i].form = Sym(name)
            /\ name \notin DOMAIN lg[i].local)
        => /\ i < Len(lg)
           /\ lg[i + 1].ev = "ret"
           /\ lg[i + 1].kind = "ok"
           /\ lg[i + 1].val = v
ReadsGlobal(lg, name) ==
    \E i \in 1..Len(lg) :
        lg[i].ev = "eval" /\ lg[i].form = Sym(name)
            /\ name \notin DOMAIN lg[i].local

\* The log of applying, in the current state, the closure bound to the
\* global n to as many 0s as it has parameters.
ApplyNow(n) ==
    eval(EmptyMap,
         Form(<<Sym(n)>> \o [k \in 1..Len(bindings[n].fun.bindings) |-> Num(0)]),
         0,
         [Machine(bindings, uuid, overflow_checks) EXCEPT !.rc = strong_count]
        ).st.log

\* C1: a top-level def whose value form evaluates to a value returns Nil and
\* binds the name to that value, and every closure in the global table when
\* (def x v) returns -- each was created before it -- reads v for x when it
\* is applied next, as does the closure the session applies next.
C1_DefSeenByClosures ==
    /\ (IsTopDef(form) /\ DefValueOk)
        => /\ result.kind = "ok"
           /\ result.val = Nil
           /\ form.l[2].s \in DOMAIN bindings
           /\ bindings[form.l[2].s] = log[Len(log) - 1].val
    /\ (IsTopDef(form) /\ DefValueOk /\ form.l[2].s = "x")
        => \A n \in DOMAIN bindings :
              IsClosure(bindings[n])
              => GlobalReadsSee(ApplyNow(n), "x", log[Len(log) - 1].val)
    /\ (IsCallOf(form, "f") /\ "x" \in DOMAIN bindings)
        => GlobalReadsSee(log, "x", bindings["x"])

\* x has been defined as 2 with closures in the table that read x, and the
\* closure bound to f, applied next, has returned 2.
C1_Witness ==
    /\ form = Def("x", Num(2))
    /\ result.kind = "ok"
    /\ "f" \in DOMAIN bindings
    /\ IsClosure(bindings["f"])
    /\ ReadsGlobal(ApplyNow("f"), "x")

\* C2: when a def is evaluated while a closure is being applied (the Rc has
\* a second owner), the evaluation ends with a value or an error, not with
\* a panic, and if it ends with a value the name is bound.
DefInsideClosure ==
    \E i \in 1..Len(log) :
        log[i].ev = "native" /\ log[i].kind = "def" /\ log[i].rc > 1
C2_DefInsideClosure ==
    DefInsideClosure
    => /\ result.kind \in {"ok", "err"}
       /\ result.kind = "ok" => "y" \in DOMAIN bindings

(***************************************************************************)
(* The trampoline.                                                         *)
(***************************************************************************)
Min(S) == CHOOSE m \in S : \A k \in S : m <= k
\* The index of the first iteration of the same application after entry i,
\* or Len(log) + 1.
NextIter(i) ==
    LET S == {j \in (i + 1)..Len(log) :
                 log[j].ev = "iter" /\ log[j].app = log[i].app}
    IN  IF S = {} THEN Len(log) + 1 ELSE Min(S)
\* The entries of the calls of eval made directly by the frame of entry i,
\* from i up to (not including) entry j.
DirectEvals(i, j) ==
    SelectSeq(SubSeq(log, i + 1, j - 1),
              LAMBDA e : e.ev = "eval" /\ e.depth = log[i].depth + 1)
DirectRets(i, j) ==
    SelectSeq(SubSeq(log, i + 1, j - 1),
              LAMBDA e : e.ev = "ret" /\ e.depth = log[i].depth + 1)

SumTo(n) == (n * (n + 1)) \div 2
\* The value of (f n) with f bound to the non-tail recursive sum.
NonTailSum(n) ==
    LET st == Machine(Context_new, 0, overflow_checks)
        g == eval(EmptyMap, Def("f", SumRecFn), 0, st).st
    IN  eval(EmptyMap, Form(<<Sym("f"), Num(n)>>), 0, g)

\* C3: the summing closure applied to n >= 0 and 0 returns what the non-tail
\* recursive sum returns, 0 + 1 + ... + n; and in every recur step the new
\* argument forms are all evaluated in the local mapping of the iteration
\* that yielded the recur list, and the next iteration starts with the
\* parameters bound to their values.
C3_RecurSum ==
    /\ \A n \in 0..MaxN :
          form = Form(<<SumLoopFn, Num(n), Num(0)>>)
          => /\ result.kind = "ok"
             /\ result.val = Num(SumTo(n))
             /\ NonTailSum(n).kind = "ok"
             /\ result.val = NonTailSum(n).val
    /\ \A i \in 1..Len(log) :
          (log[i].ev = "recur" /\ Len(log[i].form.l) = Len(log[i].params))
          => LET j == NextIter(i)
                 evals == DirectEvals(i, j)
                 rets == DirectRets(i, j)
             IN  /\ \A k \in 1..Len(evals) :
                        /\ evals[k].local = log[i].local
                        /\ evals[k].form = log[i].form.l[k]
                 /\ j <= Len(log)
                    => /\ Len(rets) = Len(log[i].params)
                       /\ \A k \in 1..Len(rets) :
                             log[j].local[log[i].params[k]] = rets[k].val

\* The summing closure has been applied to MaxN and has returned.
C3_Witness ==
    /\ form = Form(<<SumLoopFn, Num(MaxN), Num(0)>>)
    /\ result.kind = "ok"
    /\ Cardinality({i \in 1..Len(log) : log[i].ev = "recur"}) = MaxN

\* C4: all the iterations of one closure application start at the same
\* nesting depth, and that is the depth the closure was entered at.
C4_ConstantDepth ==
    \A i \in 1..Len(log) :
        log[i].ev = "iter"
        => /\ \A j \in 1..Len(log) :
                 (log[j].ev = "iter" /\ log[j].app = log[i].app)
                 => log[j].depth = log[i].depth
           /\ \E j \in 1..i :
                 /\ log[j].ev = "apply"
                 /\ log[j].app = log[i].app
                 /\ log[j].depth = log[i].depth

\* One application has run three iterations or more.
C4_Witness ==
    \E i \in 1..Len(log) :
        /\ log[i].ev = "iter"
        /\ Cardinality({j \in 1..Len(log) :
                           log[j].ev = "iter" /\ log[j].app = log[i].app}) >= 3

\* C5: a closure application, or a recur list, with a number of argument
\* forms other than the number of parameters is the last thing that happens
\* before the error is returned (nothing is evaluated after it), the error
\* names the expected and the actual count, and every iteration of a body
\* follows an application and recur lists of the right length only.
OnlyReturnsAfter(i) == \A k \in (i + 1)..Len(log) : log[k].ev = "ret"
C5_ArityChecked ==
    /\ \A i \in 1..Len(log) :
          (log[i].ev = "apply" /\ Len(log[i].form.l) # Len(log[i].params))
          => /\ OnlyReturnsAfter(i)
             /\ result.kind = "err"
             /\ result.err = MsgCounts("Wrong number of arguments",
                                       Len(log[i].params), Len(log[i].form.l))
    /\ \A i \in 1..Len(log) :
          (log[i].ev = "recur" /\ Len(log[i].form.l) # Len(log[i].params))
          => /\ OnlyReturnsAfter(i)
             /\ result.kind = "err"
             /\ result.err =
                  MsgCounts("Wrong number of arguments passed to 'recur'",
                            Len(log[i].params), Len(log[i].form.l))
    /\ \A j \in 1..Len(log) :
          log[j].ev = "iter"
          => /\ \A p \in 1..Len(log[j].params) :
                   log[j].params[p] \in DOMAIN log[j].local
             /\ \A i \in 1..j :
                   (log[i].ev \in {"apply", "recur"} /\ log[i].app = log[j].app)
                   => Len(log[i].form.l) = Len(log[j].params)

\* A closure of two parameters has been applied to three argument forms.
C5_Witness ==
    /\ form = ArityCall(2, 3)
    /\ result.kind = "err"
    /\ \E i \in 1..Len(log) : log[i].ev = "apply" /\ OnlyReturnsAfter(i)
\* A recur list of the wrong length has been refused after a good one.
RecurRefused ==
    /\ form = RecurArityCall(2)
    /\ result.kind = "err"
    /\ Cardinality({i \in 1..Len(log) : log[i].ev = "iter"}) = 2

(***************************************************************************)
(* Scope.                                                                  *)
(***************************************************************************)
\* The outcome of looking a symbol up, read off the log: entry i is the
\* call of eval on the symbol and entry i + 1 its return.
LookupIs(i, found, v) ==
    /\ i < Len(log)
    /\ log[i + 1].ev = "ret"
    /\ log[i + 1].form = log[i].form
    /\ IF found THEN log[i + 1].kind = "ok" /\ log[i + 1].val = v
       ELSE log[i + 1].kind = "err"

\* C6: the argument forms of a closure application are evaluated in order,
\* each in the local mapping of the caller (a symbol bound there yields the
\* caller's value), and the caller reads the same local values after the
\* call as before it.
C6_ArgsInCallerEnv ==
    /\ \A i \in 1..Len(log) :
          (log[i].ev = "apply" /\ Len(log[i].form.l) = Len(log[i].params))
          => LET j == NextIter(i)
                 evals == DirectEvals(i, j)
             IN  /\ Len(evals) <= Len(log[i].form.l)
                 /\ j <= Len(log) => Len(evals) = Len(log[i].form.l)
                 /\ \A k \in 1..Len(evals) :
                       /\ evals[k].form = log[i].form.l[k]
                       /\ evals[k].local = log[i].local
                 /\ \A k \in (i + 1)..(j - 1) :
                       (/\ log[k].ev = "eval"
                        /\ log[k].depth = log[i].depth + 1
                        /\ log[k].form.tag = "Symbol"
                        /\ log[k].form.s \in DOMAIN log[i].local)
                       => LookupIs(k, TRUE, log[i].local[log[k].form.s])
    /\ form = SwapCall(Num(1), Num(2))
       => /\ result.kind = "ok"
          /\ result.val = List(<<List(<<Num(2), Num(1)>>), Num(1), Num(2)>>)
    /\ (form = SwapCall(Sym("x"), Num(1)) /\ "x" \in DOMAIN bindings)
       => /\ result.kind = "ok"
          /\ result.val = List(<<List(<<Num(1), bindings["x"]>>),
                                 bindings["x"], Num(1)>>)
    /\ form = CapturedCall(Num(5), Num(10))
       => /\ result.kind = "ok"
          /\ result.val = List(<<Num(10), Num(5)>>)
    /\ (form = CapturedCall(Sym("x"), Num(10)) /\ "x" \in DOMAIN bindings)
       => /\ result.kind = "ok"
          /\ result.val = List(<<Num(10), bindings["x"]>>)

\* The inner closure of SwapCall has been applied from a caller whose locals
\* a and b have the names of its parameters.
C6_Witness ==
    /\ form = SwapCall(Num(1), Num(2))
    /\ result.kind = "ok"
    /\ \E i \in 1..Len(log) :
          /\ log[i].ev = "apply"
          /\ log[i].params = <<"a", "b">>
          /\ log[i].form = List(<<Sym("b"), Sym("a")>>)
          /\ DOMAIN log[i].local = {"a", "b"}
\* The callee has captured a local of the name the caller's argument uses.
CapturedReached ==
    form = CapturedCall(Num(5), Num(10)) /\ result.kind = "ok"

\* C7: every lookup of a symbol yields the local binding if there is one,
\* else the global binding if there is one, else an error; and in the body
\* of a closure with parameter pn = 7 and captured local cn = 8 the local
\* bindings are exactly those two, the parameter shadowing the capture,
\* while a local of the caller that was not captured is not seen.
ResolveExpected(pn, cn, sym) ==
    IF sym = pn THEN Ok(Num(7), 0)
    ELSE IF sym = cn THEN Ok(Num(8), 0)
    ELSE IF sym \in DOMAIN bindings THEN Ok(bindings[sym], 0)
    ELSE Err(Msg("Can't resolve symbol"), 0)
SameOutcome(r) ==
    result.kind = r.kind /\ result.val = r.val /\ result.err = r.err
C7_Resolution ==
    /\ \A i \in 1..Len(log) :
          (log[i].ev = "eval" /\ log[i].form.tag = "Symbol")
          => LET s == log[i].form.s
             IN  IF s \in DOMAIN log[i].local
                 THEN LookupIs(i, TRUE, log[i].local[s])
                 ELSE IF s \in DOMAIN bindings
                 THEN LookupIs(i, TRUE, bindings[s])
                 ELSE LookupIs(i, FALSE, Nil)
    /\ \A pn \in LocalNames, cn \in LocalNames, sym \in LocalNames :
          form = ResolveCall(pn, cn, sym)
          => SameOutcome(ResolveExpected(pn, cn, sym))
    /\ \A sym \in {"c", "x"} :
          form = DynamicCall(sym)
          => SameOutcome(ResolveExpected("", "", sym))

\* A body has read x with x a parameter, a captured local and a global at
\* once.
C7_Witness ==
    /\ form = ResolveCall("x", "x", "x")
    /\ "x" \in DOMAIN bindings
    /\ result.val = Num(7)
\* A body has asked for c, a local of its caller only, and failed.
DynamicRefused == form = DynamicCall("c") /\ result.kind = "err"

(***************************************************************************)
(* recur lists, if, =.                                                     *)
(***************************************************************************)
\* The index of the return of the call of eval entered at entry i.
RetOf(i) ==
    Min({k \in (i + 1)..Len(log) :
            log[k].ev = "ret" /\ log[k].depth = log[i].depth})

\* C8: every call of eval on a list headed by the symbol recur returns at
\* once (nothing is evaluated in between), with the same list as its value,
\* and the Rc is as it was; this at every depth, in every local mapping, and
\* with recur bound or not.
C8_RecurVerbatim ==
    \A i \in 1..Len(log) :
        (log[i].ev = "eval" /\ IsCallOf(log[i].form, "recur"))
        => /\ i < Len(log)
           /\ log[i + 1].ev = "ret"
           /\ log[i + 1].depth = log[i].depth
           /\ log[i + 1].kind = "ok"
           /\ log[i + 1].val = log[i].form
           /\ log[i + 1].rc = log[i].rc

\* With recur bound to 5, a recur list holding a def has been evaluated in
\* the body of a closure, and y is not bound.
C8_Witness ==
    /\ "recur" \in DOMAIN bindings
    /\ form = Form(<<Fn(<<>>, ListOf(<<Recur(<<Def("y", Num(1)), Num(1)>>)>>))>>)
    /\ result.kind = "ok"
    /\ result.val = List(<<Recur(<<Def("y", Num(1)), Num(1)>>)>>)
    /\ "y" \notin DOMAIN bindings

\* The top-level form is (if args...); entry 5 of the log is the call of
\* eval on the condition, when there is one.
IfArgs == Tail(form.l)
Evaluated(f) ==
    \E i \in 1..Len(log) :
        log[i].ev = "eval" /\ log[i].depth = 2 /\ log[i].form = f
ResultIs(v) == result.kind = "ok" /\ result.val = v

\* C9: if with 2 or 3 argument forms evaluates its condition once; on
\* Bool(false) and Nil it evaluates the else-branch only and returns its
\* value (Nil without one), on any other value the then-branch only; an
\* error of the condition is the result; with another number of argument
\* forms it fails and evaluates none of them.
C9_If ==
    IsCallOf(form, "if")
    => IF Len(IfArgs) \in {2, 3}
       THEN /\ Cardinality({i \in 1..Len(log) :
                               /\ log[i].ev = "eval"
                               /\ log[i].depth = 2
                               /\ log[i].form = IfArgs[1]}) = 1
            /\ log[5].ev = "eval" /\ log[5].form = IfArgs[1]
            /\ LET c == log[RetOf(5)]
               IN  IF c.kind # "ok"
                   THEN /\ result.kind = c.kind
                        /\ ~Evaluated(ThenForm)
                        /\ ~Evaluated(ElseForm)
                   ELSE IF c.val = Bool(FALSE) \/ c.val = Nil
                   THEN /\ ~Evaluated(ThenForm)
                        /\ IF Len(IfArgs) = 3
                           THEN Evaluated(ElseForm) /\ ResultIs(Num(22))
                           ELSE ResultIs(Nil)
                   ELSE /\ Evaluated(ThenForm)
                        /\ ~Evaluated(ElseForm)
                        /\ ResultIs(Num(11))
       ELSE /\ result.kind = "err"
            /\ result.err = Msg("Function 'if' requires 2 or 3 arguments")
            /\ \A i \in 1..Len(log) : log[i].ev = "eval" => log[i].depth < 2

\* (if 0 (+ 10 1) (+ 20 2)) has returned 11.
C9_Witness ==
    /\ form = Form(<<Sym("if"), Num(0), ThenForm, ElseForm>>)
    /\ ResultIs(Num(11))
    /\ ~Evaluated(ElseForm)
\* The empty list has been taken for true, nil for false, and five argument
\* forms have been refused.
EmptyListTruthy ==
    form = Form(<<Sym("if"), ListOf(<<>>), ThenForm, ElseForm>>)
        /\ ResultIs(Num(11))
NilFalsy ==
    form = Form(<<Sym("if"), Sym("nil"), ThenForm>>) /\ ResultIs(Nil)
IfArityRefused ==
    form = Form(<<Sym("if"), Num(0), ThenForm, ElseForm, Num(0)>>)
        /\ result.kind = "err"

\* The top-level form is (= a a) and the first evaluation of a has returned
\* a value.
IsEqSelf ==
    /\ IsCallOf(form, "=")
    /\ Len(form.l) = 3
    /\ form.l[2] = form.l[3]
    /\ log[5].ev = "eval"
    /\ log[RetOf(5)].kind = "ok"
\* fn or def has been entered during the evaluation.
MakesOrDefines ==
    \E i \in 1..Len(log) :
        log[i].ev = "native" /\ log[i].kind \in {"fn", "def"}

\* C10 as stated: (= a a) is true for every a that evaluates to a value, and
\* (=) fails.
C10_EqReflexive ==
    /\ IsEqSelf => ResultIs(Bool(TRUE))
    /\ form = Form(<<Sym("=")>>) => result.kind = "err"

\* C10 as amended: (= a a) is true for every a that evaluates to a value
\* without entering fn or def -- whatever the value, a closure looked up by
\* its name included; (= a a) with a an fn form is false; and (=) fails.
C10_EqReflexivePure ==
    /\ (IsEqSelf /\ ~MakesOrDefines) => ResultIs(Bool(TRUE))
    /\ form = Eq2(IdentFn, IdentFn) => ResultIs(Bool(FALSE))
    /\ form = Form(<<Sym("=")>>)
       => /\ result.kind = "err"
          /\ result.err = Msg("Function '=' called without arguments")

\* f is bound to a closure and (= f f) has returned true.
C10_Witness ==
    /\ form = Eq2(Sym("f"), Sym("f"))
    /\ "f" \in DOMAIN bindings
    /\ IsClosure(bindings["f"])
    /\ ResultIs(Bool(TRUE))
\* (= a a) has returned false for an a that changes x.
ToggleUnequal == form = Eq2(ToggleX, ToggleX) /\ ResultIs(Bool(FALSE))

(***************************************************************************)
(* = and + on several arguments.                                           *)
(***************************************************************************)
\* The machine of the current state, and the outcome of evaluating a form
\* in it at top level.
Now == [Machine(bindings, uuid, overflow_checks) EXCEPT !.rc = strong_count]
ValueOf(a) == eval(EmptyMap, a, 0, Now)
\* The argument forms of the top-level call evaluated last, and the calls of
\* eval its native function made on them, in order.
TopArgs == Tail(form.l)
TopArgEvals == SelectSeq(log, LAMBDA e : e.ev = "eval" /\ e.depth = 2)

\* Argument forms of =: none changes the machine; z is not bound and
\* (first (list)) fails.
EmptyFirst == Form(<<Sym("first"), ListOf(<<>>)>>)
EqNArgs == {Num(1), Num(2), Sym("x"), Sym("z"), EmptyFirst}
EqNForms ==
    {Form(<<Sym("="), a>>) : a \in EqNArgs}
        \cup {Form(<<Sym("="), a, b>>) : a \in EqNArgs, b \in EqNArgs}
        \cup {Form(<<Sym("="), a, b, c>>) :
                 a \in EqNArgs, b \in EqNArgs, c \in EqNArgs}

\* (= a ...) at top level.
EvalEqN == \E f \in EqNForms : Running /\ TopLevel(f)

\* A session that defines x and compares one to three values.
NextEqN == DefValue \/ EvalEqN
SpecEqN == Init /\ [][NextEqN]_vars

\* The first argument form whose evaluation fails, or 0.
FirstFailing(args) ==
    LET S == {k \in 1..Len(args) : ValueOf(args[k]).kind # "ok"}
    IN  IF S = {} THEN 0 ELSE Min(S)

\* C11: = evaluates every one of its argument forms, in order; when the
\* evaluation of one of them fails, whatever its position, that error is
\* the result; otherwise the result is true iff every value is equal to the
\* first.
C11_EqAllArgs ==
    (IsCallOf(form, "=") /\ Len(TopArgs) > 0)
    => LET k == FirstFailing(TopArgs)
       IN  IF k > 0
           THEN /\ result.kind = "err"
                /\ result.err = ValueOf(TopArgs[k]).err
           ELSE /\ Len(TopArgEvals) = Len(TopArgs)
                /\ \A j \in 1..Len(TopArgs) : TopArgEvals[j].form = TopArgs[j]
                /\ ResultIs(Bool(\A j \in 1..Len(TopArgs) :
                                    ValueEq(ValueOf(TopArgs[1]).val,
                                            ValueOf(TopArgs[j]).val)))

\* What = does: it stops at the first value that differs from the first, so
\* the argument forms after it are not evaluated and their errors not seen.
FirstDiffering(args) ==
    LET S == {k \in 2..Len(args) :
                 \/ ValueOf(args[k]).kind # "ok"
                 \/ ~ValueEq(ValueOf(args[1]).val, ValueOf(args[k]).val)}
    IN  IF S = {} THEN 0 ELSE Min(S)
EqStopsAtFirstDifference ==
    (IsCallOf(form, "=") /\ Len(TopArgs) > 0)
    => IF ValueOf(TopArgs[1]).kind # "ok"
       THEN result.kind = "err" /\ Len(TopArgEvals) = 1
       ELSE LET k == FirstDiffering(TopArgs)
            IN  IF k = 0
                THEN Len(TopArgEvals) = Len(TopArgs) /\ ResultIs(Bool(TRUE))
                ELSE /\ Len(TopArgEvals) = k
                     /\ IF ValueOf(TopArgs[k]).kind # "ok"
                        THEN result.kind = "err"
                        ELSE ResultIs(Bool(FALSE))
\* (= 1 2 z) has returned false.
LaterErrorUnseen ==
    form = Form(<<Sym("="), Num(1), Num(2), Sym("z")>>) /\ ResultIs(Bool(FALSE))

\* Integers + is applied to: the ends of the integer type and its middle.
AddInts == {IntMin, -1, 0, 1, IntMax}
\* Argument lists with a value that is not an integer in them; z, which is
\* not bound, comes after it.
AddOthers ==
    {<<String("s")>>, <<Num(1), Sym("nil"), Sym("z")>>,
     <<Num(1), ListOf(<<Num(1)>>)>>, <<Sym("true"), Sym("z")>>,
     <<Num(1), Num(2), Sym("+"), Sym("z")>>}
AddForms ==
    {Add2(Num(a), Num(b)) : a \in AddInts, b \in AddInts}
        \cup {Form(<<Sym("+")>> \o args) : args \in AddOthers}
        \cup {Form(<<Sym("+")>>), Form(<<Sym("+"), Num(1), Num(2), Sym("x")>>)}

\* (+ a ...) at top level.
EvalAdd == \E f \in AddForms : Running /\ TopLevel(f)

\* A session that defines x and adds.
NextAdd == DefValue \/ EvalAdd
SpecAdd == Init /\ [][NextAdd]_vars

IsInt(v) == v.tag = "Integer"
\* The top-level form is (+ a b) with integer literals a and b.
IsAddOfTwo ==
    /\ IsCallOf(form, "+")
    /\ Len(TopArgs) = 2
    /\ IsInt(TopArgs[1])
    /\ IsInt(TopArgs[2])

\* C12: (+ a b) yields the Integer a + b for all integers a and b of the
\* integer type; (+) yields 0; and + fails with an error at the first
\* argument that evaluates to a value that is not an integer, evaluating
\* none after it.
C12_AddSum ==
    /\ IsAddOfTwo => ResultIs(Integer(TopArgs[1].i + TopArgs[2].i))
    /\ form = Form(<<Sym("+")>>) => ResultIs(Integer(0))
    /\ \A args \in AddOthers :
          form = Form(<<Sym("+")>> \o args)
          => /\ result.kind = "err"
             /\ result.err = Msg("Calling function '+' with arg")
             /\ \A i \in 1..Len(log) : log[i].form # Sym("z")

\* What + does on two integers: the sum when it is in the integer type;
\* else a panic in a build that checks for overflow and the wrapped sum in
\* one that does not.
AddInRange ==
    IsAddOfTwo
    => LET s == TopArgs[1].i + TopArgs[2].i
       IN  IF s <= IntMax /\ s >= IntMin THEN ResultIs(Integer(s))
           ELSE IF overflow_checks THEN result.kind = "panic"
           ELSE ResultIs(Integer(WrapAdd(TopArgs[1].i, TopArgs[2].i)))
\* The largest integer plus one has panicked, or has come out negative.
AddOverflowed ==
    /\ form = Add2(Num(IntMax), Num(1))
    /\ result.kind = "panic" \/ ResultIs(Integer(IntMin))

(***************************************************************************)
(* Lists.                                                                  *)
(***************************************************************************)
First(a) == Form(<<Sym("first"), a>>)
Rest(a) == Form(<<Sym("rest"), a>>)
Cons(a, b) == Form(<<Sym("cons"), a, b>>)
Empty(a) == Form(<<Sym("empty?"), a>>)

\* Lists a session binds to l.
StoredLists ==
    {ListOf(<<>>), ListOf(<<Num(1)>>), ListOf(<<Num(1), String("s")>>),
     ListOf(<<ListOf(<<>>), Num(2)>>)}
\* Argument forms of first and rest: of every kind of value.
FirstRestArgs ==
    {ListOf(<<>>), ListOf(<<Num(1), Num(2)>>), Sym("l"), Num(1), String("s"),
     Sym("true"), Sym("nil"), Sym("+"), Sym("z")}
FirstRestForms ==
    {First(a) : a \in FirstRestArgs} \cup {Rest(a) : a \in FirstRestArgs}
        \cup {Form(<<Sym("first")>>), Form(<<Sym("rest"), Num(1), Num(2)>>)}

\* Forms whose value goes into a list, and forms whose value is a list.
ElemForms == {Num(1), String("s"), Sym("nil"), ListOf(<<Num(2)>>), Sym("l")}
ListForms ==
    {ListOf(<<>>), ListOf(<<Num(1)>>), ListOf(<<String("s"), Num(1)>>),
     Sym("l")}
ListArgLists ==
    {<<>>, <<Num(1)>>, <<String("s"), Num(1)>>, <<Num(2), Sym("l"), Num(1)>>,
     <<Add2(Num(1), Num(2)), Sym("nil"), ListOf(<<>>)>>}
ListOpForms ==
    {First(Cons(v, lf)) : v \in ElemForms, lf \in ListForms}
        \cup {Rest(Cons(v, lf)) : v \in ElemForms, lf \in ListForms}
        \cup {Cons(First(lf), Rest(lf)) : lf \in ListForms}
        \cup {ListOf(es) : es \in ListArgLists}
        \cup {Empty(lf) : lf \in ListForms}
        \cup {Empty(Cons(v, Sym("l"))) : v \in ElemForms}
        \cup {Empty(Rest(lf)) : lf \in ListForms}

\* (def l (list ...)) at top level.
DefList == \E lf \in StoredLists : Running /\ TopLevel(Def("l", lf))
\* (first a) and (rest a) at top level.
EvalFirstRest == \E f \in FirstRestForms : Running /\ TopLevel(f)
\* A composition of list, cons, first, rest and empty? at top level.
EvalListOp == \E f \in ListOpForms : Running /\ TopLevel(f)

\* A session that binds l to a list and takes lists apart and together.
NextList == DefList \/ EvalFirstRest \/ EvalListOp
SpecList == Init /\ [][NextList]_vars

\* The top-level form is (op a) and a has been evaluated to the value
\* ArgValue: entry 5 of the log is the call of eval on a.
IsOpOnValue(op) ==
    /\ IsCallOf(form, op)
    /\ Len(TopArgs) = 1
    /\ log[5].ev = "eval"
    /\ log[RetOf(5)].kind = "ok"
ArgValue == log[RetOf(5)].val
NonEmptyListMsg(op) == Msg("Function '" \o op \o "' requires non-empty list")

\* C13: first and rest, given one argument form whose value is not a
\* non-empty List, fail: with the non-empty-list error on the empty list and
\* with another error, for the wrong type, on every other value.
C13_FirstRestRefuse ==
    \A op \in {"first", "rest"} :
        (IsOpOnValue(op) /\ ~(ArgValue.tag = "List" /\ Len(ArgValue.l) > 0))
        => /\ result.kind = "err"
           /\ IF ArgValue.tag = "List"
              THEN result.err = NonEmptyListMsg(op)
              ELSE result.err # NonEmptyListMsg(op)

\* What first and rest do: first refuses everything but a non-empty List;
\* rest refuses the empty List only, and returns a value that is not a List
\* as it is.
FirstRefusesRestPasses ==
    /\ (IsOpOnValue("first") /\ ArgValue.tag # "List")
        => /\ result.kind = "err"
           /\ result.err = Msg("Only list is supported for 'first' function")
    /\ \A op \in {"first", "rest"} :
          (IsOpOnValue(op) /\ ArgValue = List(<<>>))
          => result.kind = "err" /\ result.err = NonEmptyListMsg(op)
    /\ (IsOpOnValue("rest") /\ ArgValue.tag # "List") => ResultIs(ArgValue)
\* (rest 1) has returned 1.
RestOfInteger == form = Rest(Num(1)) /\ ResultIs(Num(1))

\* The outcome of evaluating a in the current state is a value, a List.
IsValue(a) == ValueOf(a).kind = "ok"
IsListValue(a) == IsValue(a) /\ ValueOf(a).val.tag = "List"

\* C14: (first (cons v l)) is v and (rest (cons v l)) is l; for l not empty
\* (cons (first l) (rest l)) is l; (list e1 ... en) holds the values of
\* e1 ... en in order; (empty? l) is true iff l has no element; and none of
\* these forms changes the global table, where l is bound.
C14_ListRoundTrip ==
    /\ \A v \in ElemForms, lf \in ListForms :
          (IsValue(v) /\ IsListValue(lf))
          => /\ form = First(Cons(v, lf)) => ResultIs(ValueOf(v).val)
             /\ form = Rest(Cons(v, lf)) => ResultIs(ValueOf(lf).val)
             /\ form = Empty(Cons(v, lf)) => ResultIs(Bool(FALSE))
    /\ \A lf \in ListForms :
          IsListValue(lf)
          => /\ form = Empty(lf) => ResultIs(Bool(Len(ValueOf(lf).val.l) = 0))
             /\ Len(ValueOf(lf).val.l) > 0
                => /\ form = Cons(First(lf), Rest(lf))
                      => ResultIs(ValueOf(lf).val)
                   /\ form = Empty(Rest(lf))
                      => ResultIs(Bool(Len(ValueOf(lf).val.l) = 1))
    /\ \A es \in ListArgLists :
          (form = ListOf(es) /\ \A k \in 1..Len(es) : IsValue(es[k]))
          => /\ result.kind = "ok"
             /\ result.val.tag = "List"
             /\ Len(result.val.l) = Len(es)
             /\ \A k \in 1..Len(es) : result.val.l[k] = ValueOf(es[k]).val
    /\ \A f \in ListOpForms : ValueOf(f).st.g = bindings

\* With l bound to a list of two elements, (rest (cons "s" l)) has returned
\* that list.
C14_Witness ==
    /\ form = Rest(Cons(String("s"), Sym("l")))
    /\ "l" \in DOMAIN bindings
    /\ bindings["l"] = List(<<Num(1), String("s")>>)
    /\ ResultIs(bindings["l"])
\* With l so bound, (cons (first l) (rest l)) has returned it.
ConsFirstRest ==
    /\ form = Cons(First(Sym("l")), Rest(Sym("l")))
    /\ "l" \in DOMAIN bindings
    /\ bindings["l"] = List(<<List(<<>>), Num(2)>>)
    /\ ResultIs(bindings["l"])

(***************************************************************************)
(* import.                                                                 *)
(***************************************************************************)
Import(a) == Form(<<Sym("import"), a>>)
\* Forms whose value can be a String that names a file: a literal, a symbol
\* bound to one, calls that return one.
PathForms ==
    {String("lib"), Sym("p"), First(ListOf(<<String("lib")>>)),
     If3(Sym("true"), String("lib"), String("none"))}
\* "none" names no file.
PathNames == DOMAIN Files \cup {"none"}
ImportForms ==
    {Import(a) : a \in PathForms}
        \cup {Import(String(path)) : path \in PathNames}
        \cup {Form(<<Sym("import")>>), Import(Num(1)),
              Form(<<Sym("import"), String("lib"), String("lib")>>)}

\* (def p "lib") at top level.
DefPath == \E path \in {"lib", "two"} : Running /\ TopLevel(Def("p", String(path)))
\* (import ...) at top level.
EvalImport == \E f \in ImportForms : Running /\ TopLevel(f)

\* A session that defines x, binds p to the name of a file and imports.
NextImport == DefValue \/ DefPath \/ EvalImport
SpecImport == Init /\ [][NextImport]_vars

\* C15: import evaluates its argument form: for every form a whose value is
\* the String "lib" -- the literal, the symbol p bound to it, a call that
\* returns it -- (import a) evaluates the form of that file, (def y 1), in
\* the session's Context and returns Nil.
C15_ImportEvaluatesArg ==
    \A a \in PathForms :
        (form = Import(a) /\ IsValue(a) /\ ValueOf(a).val = String("lib"))
        => /\ ResultIs(Nil)
           /\ "y" \in DOMAIN bindings
           /\ bindings["y"] = Num(1)

\* What import does: it takes its argument form as it stands, so a String
\* literal names the file and every other form is refused, without being
\* evaluated.
ImportTakesLiteral ==
    /\ form = Import(String("lib"))
       => /\ ResultIs(Nil)
          /\ "y" \in DOMAIN bindings
          /\ bindings["y"] = Num(1)
    /\ \A a \in PathForms \cup {Num(1)} :
          (form = Import(a) /\ a.tag # "String")
          => /\ result.kind = "err"
             /\ result.err = Msg("Expected string as argument to 'import'")
             /\ \A i \in 1..Len(log) : log[i].ev = "eval" => log[i].depth < 2
\* With p bound to "lib", (import p) has failed.
ImportOfSymbolRefused ==
    /\ form = Import(Sym("p"))
    /\ "p" \in DOMAIN bindings
    /\ bindings["p"] = String("lib")
    /\ result.kind = "err"

\* The text of the file fails to parse: parse_next fails on it, or leaves a
\* list open.
ParseFails(src) ==
    LET q == parse_next(Parser_new, src)
    IN  q.kind = "err" \/ finish(q.state) = "err"

\* C16: (import "path") returns an error when the file cannot be opened,
\* when it is opened and reading it fails, and when its text fails to parse.
C16_ImportFails ==
    \A path \in PathNames :
        (/\ form = Import(String(path))
         /\ \/ ~File_open(path)
            \/ ~Files[path].read_ok
            \/ ParseFails(Files[path].src))
        => result.kind = "err"

\* What import does: it fails when the file cannot be opened and when the
\* text it holds after reading fails to parse, and it takes a failed read
\* for a read of what had been read by then.
ImportIgnoresReadError ==
    \A path \in PathNames :
        form = Import(String(path))
        => IF ~File_open(path)
           THEN result.kind = "err" /\ result.err = Msg("Can't read file")
           ELSE IF ParseFails(Files[path].src) THEN result.kind = "err"
           ELSE IF ~Files[path].read_ok THEN ResultIs(Nil)
           ELSE TRUE
\* A file that cannot be read has been imported with success; one whose
\* reading failed half way has been imported and has bound y.
UnreadableImported == form = Import(String("dir")) /\ ResultIs(Nil)
HalfReadImported ==
    /\ form = Import(String("cut"))
    /\ ResultIs(Nil)
    /\ "y" \in DOMAIN bindings
\* A file with a list left open has been refused after its first form was
\* evaluated.
OpenListRefused ==
    /\ form = Import(String("open"))
    /\ result.kind = "err"
    /\ "y" \in DOMAIN bindings

(***************************************************************************)
(* The read-eval-print loop of main, line by line.                         *)
(***************************************************************************)
\* Lines of input read in one session, at most.
MaxLines == 3

\* for elem in ... { let result = eval(&mut context, elem).unwrap(); ... }:
\* the elements of one line are evaluated in order until one fails.  acc is
\* the Context and the last evaluation so far.
RECURSIVE repl_loop(_, _)
repl_loop(elems, acc) ==
    IF elems = <<>> THEN acc
    ELSE LET st == [Machine(acc.g, acc.uuid, overflow_checks) EXCEPT
                      !.rc = acc.rc]
             r == eval(EmptyMap, Head(elems), 0, st)
             next == [g |-> r.st.g, rc |-> r.st.rc, uuid |-> r.st.uuid,
                      form |-> Head(elems),
                      result |-> [kind |-> r.kind, val |-> r.val, err |-> r.err],
                      log |-> r.st.log]
         IN  IF r.kind # "ok" THEN next ELSE repl_loop(Tail(elems), next)

\* The number of lines read so far: every line ends with a line feed.
LinesRead == Cardinality({k \in 1..Len(fed) : fed[k] = "\n"})

\* The for loop of main has ended with acc: the Context is as the loop left
\* it, and the process lives on if no element failed.
Evaluated_all(elems, acc) ==
    /\ acc.uuid <= MaxUuid
    /\ bindings' = acc.g
    /\ strong_count' = acc.rc
    /\ uuid' = acc.uuid
    /\ form' = acc.form
    /\ result' = acc.result
    /\ log' = acc.log
    /\ status' = IF elems = <<>> \/ acc.result.kind = "ok"
                 THEN "running" ELSE "aborted"

\* parser.parse_next(&src) has returned p: unwrap, then the for loop.
ReadLineParsed(src, p) ==
    /\ state' = p.state
    /\ parsed' = [kind |-> p.kind, msg |-> p.msg, result |-> p.result,
                  src |-> src]
    /\ fed' = fed \o src
    /\ emitted' = emitted \o p.result
    /\ IF p.kind = "err"
       THEN status' = "aborted" /\ UNCHANGED eval_vars
       ELSE Evaluated_all(p.result,
                          repl_loop(p.result,
                                    [g |-> bindings, rc |-> strong_count,
                                     uuid |-> uuid, form |-> form,
                                     result |-> result, log |-> log]))
    /\ UNCHANGED <<overflow_checks, finished>>

\* One turn of the loop of main on a line src that read_line has returned.
ReadLineOf(src) == ReadLineParsed(src, parse_next(state, src))

\* Text of lines.
LineDefX1 == <<"(", "d", "e", "f", " ", "x", " ", "1", ")", "\n">>
LineDefX == <<"(", "d", "e", "f", " ", "x", "\n">>
Line2Close == <<"2", ")", "\n">>
LineX == <<"x", "\n">>
LineZ == <<"z", "\n">>
LineClose == <<")", "\n">>
LineString == <<"\"", "a", "\n">>
LineToken == <<"1", "a", "\n">>
\* x z x
LineXZX == <<"x", " ", "z", " ", "x", "\n">>
\* (first 1)
LineFirst1 == <<"(", "f", "i", "r", "s", "t", " ", "1", ")", "\n">>
\* (import "lib")
LineImport ==
    <<"(", "i", "m", "p", "o", "r", "t", " ", "\"", "l", "i", "b", "\"", ")", "\n">>
Lines ==
    {LineDefX1, LineDefX, Line2Close, LineX, LineZ, LineClose, LineString,
     LineToken, LineXZX, LineFirst1, LineImport, <<"\n">>}

\* main reads a line.
ReadLine ==
    \E src \in Lines : Running /\ LinesRead < MaxLines /\ ReadLineOf(src)

\* main reads end of input: parser.finish().unwrap(); break.
Eof ==
    /\ Running
    /\ finished' = finish(state)
    /\ status' = IF finish(state) = "ok" THEN "finished" ELSE "aborted"
    /\ UNCHANGED <<eval_vars, overflow_checks, state, parsed, fed, emitted>>

NextRepl == ReadLine \/ Eof
SpecRepl == Init /\ [][NextRepl]_vars

\* C17: when parsing or evaluating a line returns an error the driver goes
\* on: it is still running, to read the next line with the same Context.
C17_ReplContinues ==
    (finished = "none" /\ (parsed.kind = "err" \/ result.kind = "err"))
    => Running

\* What main does: the first error, of the parser or of eval, ends the
\* process (both Results are unwrapped), so a session is running only while
\* no line has failed; until then the definitions of earlier lines are
\* there for later lines.
ReplEndsAtFirstError ==
    /\ (parsed.kind = "err" \/ result.kind \in {"err", "panic"})
        => status = "aborted"
    /\ (form = Sym("x") /\ Running /\ result.kind = "ok")
        => "x" \in DOMAIN bindings /\ result.val = bindings["x"]
\* x was defined, and the line z has ended the session.
ReplEndedByError ==
    /\ status = "aborted"
    /\ "x" \in DOMAIN bindings
    /\ form = Sym("z")
    /\ result.kind = "err"
    /\ finished = "none"
\* A line with a closing parenthesis too many has ended the session.
ReplEndedByParseError ==
    status = "aborted" /\ parsed.kind = "err" /\ parsed.src = LineClose
\* A form has been read over two lines and evaluated.
FormOverTwoLines ==
    /\ Running
    /\ parsed.src = Line2Close
    /\ form = Def("x", Num(2))
    /\ result.kind = "ok"

(***************************************************************************)
(* The parser fed a text in pieces.                                        *)
(***************************************************************************)
\* The longest text fed to one Parser, and the longest piece.
MaxText == 5
MaxChunk == 2
\* The characters of the texts: the line feed is the white space.
ParseChars == {"(", ")", "a", "1", "\"", ";", "\n"}
Chunks == UNION {[1..n -> ParseChars] : n \in 1..MaxChunk}

\* The lexical structure of a text, read character by character: whether
\* its end is between tokens ("top"), in an atom ("tok"), in a string or in
\* a comment, and how many parentheses it has opened and closed outside
\* strings, comments and atoms; tops counts the closing parentheses that
\* close a list no other list encloses.
LexInit == [mode |-> "top", opens |-> 0, closes |-> 0, tops |-> 0]
LexStep(m, c) ==
    IF m.mode = "str"
    THEN IF c = "\"" THEN [m EXCEPT !.mode = "top"] ELSE m
    ELSE IF m.mode = "comment"
    THEN IF c = "\n" THEN [m EXCEPT !.mode = "top"] ELSE m
    ELSE IF c = ")"
    THEN [m EXCEPT !.mode = "top", !.closes = @ + 1,
                   !.tops = IF m.opens - m.closes = 1 THEN @ + 1 ELSE @]
    ELSE IF IsWhitespace(c) THEN [m EXCEPT !.mode = "top"]
    ELSE IF m.mode = "tok" THEN m
    ELSE IF c = "(" THEN [m EXCEPT !.opens = @ + 1]
    ELSE IF c = ";" THEN [m EXCEPT !.mode = "comment"]
    ELSE IF c = "\"" THEN [m EXCEPT !.mode = "str"]
    ELSE [m EXCEPT !.mode = "tok"]
RECURSIVE LexFrom(_, _)
LexFrom(m, text) ==
    IF text = <<>> THEN m ELSE LexFrom(LexStep(m, Head(text)), Tail(text))
Lex(text) == LexFrom(LexInit, text)

\* The text before \o src may be cut between the two: before ends between
\* tokens, or in an atom that the first character of src ends.
CutAllowed(before, src) ==
    \/ Lex(before).mode = "top"
    \/ Lex(before).mode = "tok" /\ Head(src) \in TokenEnd

\* parser.parse_next(src) on the next piece of a text.
ParseNext ==
    \E src \in Chunks :
        /\ parsed.kind # "err"
        /\ finished = "none"
        /\ Len(fed) + Len(src) <= MaxText
        /\ CutAllowed(fed, src)
        /\ LET p == parse_next(state, src)
           IN  /\ state' = p.state
               /\ parsed' = [kind |-> p.kind, msg |-> p.msg,
                             result |-> p.result, src |-> src]
               /\ emitted' = emitted \o p.result
        /\ fed' = fed \o src
        /\ UNCHANGED <<eval_vars, overflow_checks, status, finished>>

\* parser.finish() at the end of the text.
Finish ==
    /\ parsed.kind # "err"
    /\ finished = "none"
    /\ finished' = finish(state)
    /\ UNCHANGED <<eval_vars, overflow_checks, status, state, parsed, fed,
                   emitted>>

NextParse == ParseNext \/ Finish
SpecParse == Init /\ [][NextParse]_vars

ListsIn(values) ==
    Cardinality({k \in 1..Len(values) : values[k].tag = "List"})
\* The text fed before the last call.
FedBefore == SubSeq(fed, 1, Len(fed) - Len(parsed.src))

\* C18: the calls of parse_next on the pieces of a text cut between tokens
\* have returned, together and in order, the values one call on the whole
\* text returns, and have left the same stack of open lists; they fail
\* where it fails, with the same error.  A call returns as many lists as
\* its piece has parentheses closing a list no list encloses; the stack
\* holds one entry for every parenthesis opened and not yet closed; and
\* finish succeeds iff the stack is empty.
C18_Incremental ==
    LET whole == parse_next(Parser_new, fed)
    IN  /\ parsed.kind # "err"
           => /\ whole.kind = "ok"
              /\ whole.result = emitted
              /\ whole.state = state
        /\ parsed.kind = "err"
           => /\ whole.kind = "err"
              /\ whole.msg = parsed.msg
              /\ whole.state = state
        /\ parsed.kind = "ok"
           => /\ Len(state) = Lex(fed).opens - Lex(fed).closes
              /\ ListsIn(parsed.result) = Lex(fed).tops - Lex(FedBefore).tops
              /\ ListsIn(emitted) = Lex(fed).tops
        /\ finished # "none"
           => /\ finished = "ok" <=> state = <<>>
              /\ finished = "ok" <=> Lex(fed).opens = Lex(fed).closes

\* A list opened by one call has been returned, with an element, by a later
\* call.
C18_Witness ==
    /\ parsed.kind = "ok"
    /\ \A k \in 1..Len(parsed.src) : parsed.src[k] # "("
    /\ \E k \in 1..Len(parsed.result) :
          parsed.result[k].tag = "List" /\ Len(parsed.result[k].l) > 0
\* A text cut in three has been parsed to a list in a list.
NestedOverCalls ==
    /\ Len(fed) > 2 * MaxChunk
    /\ emitted = <<List(<<List(<<Symbol("a")>>)>>)>>
    /\ finished = "ok"

====
